---- MODULE Spec2Model ----
(***************************************************************************)
(* ActionCoordinator (src/action_coordinator.py): the plan executor, its   *)
(* retry policy, the shared semaphore and the lifetime counters.           *)
(*                                                                         *)
(* The coordinator runs on one asyncio event loop: a coroutine runs        *)
(* without interruption from one await to the next.  Every action below is *)
(* one such segment of one execute_plan call, from the suspension point    *)
(* the call is at (pc) to the next one.  The suspension points are the     *)
(* wait on the semaphore, the await inside the handler, the backoff sleep  *)
(* and the pacing sleep.                                                   *)
(***************************************************************************)
EXTENDS Integers, Sequences, FiniteSets, TLC

\* ------------------------------------------------------------------ bounds
\* Longest plan submitted.
MaxPlanLen == 2
\* config['retry_attempts'] of the coordinator under test.
MaxRetries == 1
\* config['max_parallel_actions'] of the coordinator under test.
MaxParallel == 1
\* Wall time of one execute_plan call, in clock ticks (time.time() taken as
\* not running backwards).
Elapsed == 1
\* The concurrent callers of execute_plan on the one coordinator.
Tasks == {"t1", "t2"}

\* ------------------------------------------------------ program constants
\* self.config.get('retry_attempts', 3)
DefaultRetryAttempts == 3
\* self.config.get('retry_delay', 1.0), in milliseconds
DefaultRetryDelay == 1000
\* asyncio.sleep(0.5) between two steps, in milliseconds
PacingDelay == 500

\* ------------------------------------------------------------- data model
\* ActionType values (agent_core.py).
ActionTypeValues ==
    {"navigate", "click", "input_text", "extract_data", "wait", "scroll",
     "decision", "condition", "loop", "execute_script"}

\* Keys of self.action_handlers.
action_handlers ==
    {"navigate", "click", "input_text", "extract_data", "wait", "scroll",
     "execute_script"}

\* action.type is an ActionType member (enum = TRUE, tag its value) or, for a
\* caller that passes a bare tag, a plain string (enum = FALSE).
EnumType(tag) == [enum |-> TRUE, tag |-> tag]
StrType(tag) == [enum |-> FALSE, tag |-> tag]

\* The types the submitted plans draw from: a registered capability, an
\* ActionType member with no handler, and a bare string with no handler.
PlanTypes == {EnumType("click"), EnumType("decision"), StrType("hover")}

Actions == [type : PlanTypes, retry_on_fail : BOOLEAN]

Plans == UNION {[1..n -> Actions] : n \in 0..MaxPlanLen}

\* What the other callers submit while the first one runs any plan: plans of
\* registered actions that never abort.
BackgroundPlans ==
    {p \in Plans : \A k \in 1..Len(p) :
        p[k] = [type |-> EnumType("click"), retry_on_fail |-> TRUE]}

AttributeError == "AttributeError"
NoHandler == "None"

\* hasattr(action.type, 'value')
HasValue(type) == type.enum

\* action.type.value
TypeValue(type) == IF type.enum THEN type.tag ELSE AttributeError

\* str(action.type), taken only when the type has no value attribute
Str(type) == type.tag

\* action_type, then self.action_handlers.get(action_type)
Resolve(action) ==
    LET action_type == IF HasValue(action.type) THEN TypeValue(action.type)
                       ELSE Str(action.type)
    IN  IF action_type \in action_handlers THEN action_type ELSE NoHandler

\* Mutant: the steps numbered from one.
ActionIdOneBased(step_index) == <<"step", step_index + 1>>

\* f"step_{step_index}"
ActionId(step_index) == <<"step", step_index>>

\* uuid.uuid4().hex[:6]: the first six hex digits of a random UUID, here one
\* of two values.
Uuid4Hex6 == {"3f9a1c", "b07e42"}

\* f"exec_{uuid.uuid4().hex[:6]}"
ExecutionId(hex) == <<"exec", hex>>

\* The draws in which every caller gets a value of its own.
DistinctDraws == {u \in [Tasks -> Uuid4Hex6] : \A t, v \in Tasks : u[t] = u[v] => t = v}

\* ------------------------------------------------------------------ state
VARIABLES
    is_ready,    \* self.is_ready
    active,      \* self.active
    semaphore,   \* self.semaphore._value: the free slots
    stats,       \* self.stats
    max_retries, \* self.config['retry_attempts']
    plan,        \* plan[t].actions: the plan caller t submits
    pc,          \* where caller t's execute_plan is suspended
    i,           \* the loop index of execute_plan
    attempt,     \* the loop index of _execute_action_with_retry
    results,     \* the local list results of execute_plan
    summary,     \* what execute_plan returned
    calls,       \* history: calls[t][k], handler invocations begun for action k
    raises,      \* history: raises[t][k], handler invocations of action k that raised
    lifecycle,   \* history: the last of __init__, initialize, shutdown to act
    status_dict, \* the dict the first get_status call returned
    copy_stats,  \* the contents of the dict object self.stats.copy() made
    execution_id, \* the local execution_id of execute_plan
    sleeps,      \* history: the asyncio.sleep calls caller t's execute_plan made
    browser,     \* history: what the browser did in each handler invocation of caller t
    uuid4,       \* uuid4[t]: what uuid.uuid4().hex[:6] yields in caller t's call
    waiters,     \* self.semaphore._waiters: the futures of the callers waiting
    handled_unready, \* history: caller t began a handler invocation while
                 \* is_ready was False
    controller,  \* the BrowserController: is_initialized, is_active, page
    initialize_result, \* history: how the last call of initialize() ended
    clock,       \* time.time(), in seconds since a local midnight
    usage_history, \* TokenManager.usage_history
    token_stats, \* TokenManager.stats
    last_add_usage, \* history: the last call of add_usage and how it ended
    adjusted     \* history: the last call of adjust_plan and what it returned

vars == <<is_ready, active, semaphore, stats, max_retries, plan, pc, i,
          attempt, results, summary, calls, raises, lifecycle, status_dict,
          copy_stats, execution_id, sleeps, browser, uuid4, waiters,
          handled_unready, controller, initialize_result, clock,
          usage_history, token_stats, last_add_usage, adjusted>>

\* The state of the TokenManager.
tokenVars == <<clock, usage_history, token_stats, last_add_usage>>

NoSummary == [kind |-> "none"]

NoStatus == [kind |-> "none"]

\* No dict object yet.
NoDict == [kind |-> "none"]

\* execute_plan not entered: no execution_id yet.
NoExecutionId == <<"none">>

\* No call made yet.
NoCall == [kind |-> "none"]

\* The BrowserController as its __init__ leaves it.
BrowserCreated == [is_initialized |-> FALSE, is_active |-> FALSE, page |-> "None"]

\* The BrowserController after its initialize() (main.py calls it before the
\* coordinator's).
BrowserStarted == [is_initialized |-> TRUE, is_active |-> TRUE, page |-> "page"]

\* The TokenManager as __init__ leaves it at time start, with no history on
\* disk.
TokenManagerAt(start) ==
    /\ clock = start
    /\ usage_history = <<>>
    /\ token_stats = [total_requests |-> 0, total_tokens_used |-> 0,
                      limit_exceeded_count |-> 0, last_reset_time |-> start]
    /\ last_add_usage = NoCall

\* The coordinator as __init__ leaves it, built with retry_attempts = r, the
\* callers about to submit the plans p, and the random draws u ahead of them.
CoordinatorConstructed(p, r, u) ==
    /\ is_ready = FALSE
    /\ active = FALSE
    /\ semaphore = MaxParallel
    /\ stats = [actions_executed |-> 0, actions_failed |-> 0,
                total_retries |-> 0, total_duration |-> 0]
    /\ max_retries = r
    /\ plan = p
    /\ pc = [t \in Tasks |-> "idle"]
    /\ i = [t \in Tasks |-> 0]
    /\ attempt = [t \in Tasks |-> 0]
    /\ results = [t \in Tasks |-> <<>>]
    /\ summary = [t \in Tasks |-> NoSummary]
    /\ calls = [t \in Tasks |-> [k \in 1..Len(plan[t]) |-> 0]]
    /\ raises = [t \in Tasks |-> [k \in 1..Len(plan[t]) |-> 0]]
    /\ lifecycle = "constructed"
    /\ status_dict = NoStatus
    /\ copy_stats = NoDict
    /\ execution_id = [t \in Tasks |-> NoExecutionId]
    /\ sleeps = [t \in Tasks |-> <<>>]
    /\ browser = [t \in Tasks |-> <<>>]
    /\ uuid4 = u
    /\ waiters = <<>>
    /\ handled_unready = [t \in Tasks |-> FALSE]
    /\ initialize_result = "none"

\* The program once main has built its parts and started the browser: the
\* coordinator not yet initialized, the token manager and the agent idle.
Constructed(p, r, u) ==
    /\ CoordinatorConstructed(p, r, u)
    /\ controller = BrowserStarted
    /\ TokenManagerAt(0)
    /\ adjusted = NoCall

Init ==
    \E p \in [Tasks -> Plans] :
        /\ \A t \in Tasks \ {"t1"} : p[t] \in BackgroundPlans
        /\ Constructed(p, MaxRetries, CHOOSE u \in DistinctDraws : TRUE)

\* --------------------------------------------------- one call's local view
\* The part of the state one segment of caller t reads and writes.
Frame(t) ==
    [pc |-> pc[t], i |-> i[t], attempt |-> attempt[t], results |-> results[t],
     summary |-> summary[t], calls |-> calls[t], raises |-> raises[t],
     stats |-> stats, sem |-> semaphore, execution_id |-> execution_id[t],
     sleeps |-> sleeps[t], task |-> t, waiters |-> waiters,
     ready |-> is_ready, handled_unready |-> handled_unready[t]]

Commit(t, f) ==
    /\ pc' = [pc EXCEPT ![t] = f.pc]
    /\ i' = [i EXCEPT ![t] = f.i]
    /\ attempt' = [attempt EXCEPT ![t] = f.attempt]
    /\ results' = [results EXCEPT ![t] = f.results]
    /\ summary' = [summary EXCEPT ![t] = f.summary]
    /\ calls' = [calls EXCEPT ![t] = f.calls]
    /\ raises' = [raises EXCEPT ![t] = f.raises]
    /\ stats' = f.stats
    /\ semaphore' = f.sem
    /\ execution_id' = [execution_id EXCEPT ![t] = f.execution_id]
    /\ sleeps' = [sleeps EXCEPT ![t] = f.sleeps]
    /\ waiters' = f.waiters
    /\ handled_unready' = [handled_unready EXCEPT ![t] = f.handled_unready]
    /\ UNCHANGED <<is_ready, active, max_retries, plan, lifecycle, status_dict,
                   copy_stats, browser, uuid4, controller, initialize_result,
                   tokenVars, adjusted>>

CountStatus(rs, status) == Cardinality({k \in 1..Len(rs) : rs[k].status = status})

AllCompleted(rs) == \A k \in 1..Len(rs) : rs[k].status = "completed"

\* _result_to_dict: the fields of a result the summary carries.
result_to_dict(r) ==
    [action_id |-> r.action_id, status |-> r.status,
     retry_count |-> r.retry_count, error |-> r.error]

\* Mutant: the step marked skipped.
UnknownResultSkipped(step_index) ==
    [action_id |-> ActionId(step_index), status |-> "skipped",
     error |-> "unknown action type", retry_count |-> 0]

\* ExecutionResult for an action with no handler.
UnknownResult(step_index) ==
    [action_id |-> ActionId(step_index), status |-> "failed",
     error |-> "unknown action type", retry_count |-> 0]

\* Mutant: the attempt counted from one.
CompletedResultOneBased(step_index, att) ==
    [action_id |-> ActionId(step_index), status |-> "completed",
     error |-> "none", retry_count |-> att + 1]

\* ExecutionResult of an attempt whose handler returned.
CompletedResult(step_index, att) ==
    [action_id |-> ActionId(step_index), status |-> "completed",
     error |-> "none", retry_count |-> att]

\* str(e) of the exception the handler raised on attempt att.
ErrorMessage(att) == <<"handler error", att>>

\* Mutant: the message of the first failure kept.
FailedResultFirstError(step_index, att, error_msg) ==
    [action_id |-> ActionId(step_index), status |-> "failed",
     error |-> ErrorMessage(0), retry_count |-> att]

\* ExecutionResult after the last attempt raised.
FailedResult(step_index, att, error_msg) ==
    [action_id |-> ActionId(step_index), status |-> "failed",
     error |-> error_msg, retry_count |-> att]

\* Mutant: the counters written from values read before the call was
\* suspended, so that the additions of the calls that ended meanwhile are lost.
FinishOverwritesCounters(f) ==
    LET rs == f.results
    IN  [f EXCEPT
            !.pc = "done",
            !.stats = [@ EXCEPT
                          !.actions_executed = Len(rs),
                          !.actions_failed = CountStatus(rs, "failed"),
                          !.total_duration = @ + Elapsed],
            !.summary = [kind |-> "summary",
                         execution_id |-> f.execution_id,
                         success |-> AllCompleted(rs),
                         total_actions |-> Len(rs),
                         successful_actions |-> CountStatus(rs, "completed"),
                         failed_actions |-> CountStatus(rs, "failed"),
                         results |-> [k \in 1..Len(rs) |-> result_to_dict(rs[k])]]]

\* The end of the try block: counters, then the summary.
Finish(f) ==
    LET rs == f.results
    IN  [f EXCEPT
            !.pc = "done",
            !.stats = [@ EXCEPT
                          !.actions_executed = @ + Len(rs),
                          !.actions_failed = @ + CountStatus(rs, "failed"),
                          !.total_duration = @ + Elapsed],
            !.summary = [kind |-> "summary",
                         execution_id |-> f.execution_id,
                         success |-> AllCompleted(rs),
                         total_actions |-> Len(rs),
                         successful_actions |-> CountStatus(rs, "completed"),
                         failed_actions |-> CountStatus(rs, "failed"),
                         results |-> [k \in 1..Len(rs) |-> result_to_dict(rs[k])]]]

\* Mutant: no except block, the exception leaves execute_plan.
ExceptFinishPropagates(f) == [f EXCEPT !.pc = "raised"]

\* The except block: an exception raised inside the loop.
ExceptFinish(f) ==
    [f EXCEPT
        !.pc = "done",
        !.summary = [kind |-> "error",
                     execution_id |-> f.execution_id,
                     success |-> FALSE,
                     error |-> AttributeError,
                     results |-> [k \in 1..Len(f.results) |->
                                     result_to_dict(f.results[k])]]]

\* await asyncio.sleep(delay): the call is suspended in the sleep named kind.
Sleep(f, kind, delay) ==
    [f EXCEPT !.pc = kind,
              !.sleeps = Append(@, [kind |-> kind, step |-> f.i, delay |-> delay])]

\* Mutant: the flag read without its negation.
ShouldAbortFlagInverted(result, action) ==
    result.status = "failed" /\ action.retry_on_fail

\* Mutant: the break left out.
ShouldAbortNever(result, action) == FALSE

\* result.status == FAILED and not action.retry_on_fail
ShouldAbort(result, action) ==
    result.status = "failed" /\ ~action.retry_on_fail

\* Mutant: only the results of steps that did not fail are appended.
AfterResultDropsFailures(f, p, result) ==
    LET g == [f EXCEPT !.results = IF result.status = "failed" THEN @
                                   ELSE Append(@, result)]
    IN  IF ShouldAbort(result, p[f.i + 1]) THEN Finish(g)
        ELSE IF f.i < Len(p) - 1 THEN Sleep(g, "pacing", PacingDelay)
        ELSE Finish(g)

\* Mutant: the pacing sleep also after the last action (i < len(plan.actions)).
AfterResultPausesAfterLast(f, p, result) ==
    LET g == [f EXCEPT !.results = Append(@, result)]
    IN  IF ShouldAbort(result, p[f.i + 1]) THEN Finish(g)
        ELSE IF f.i < Len(p) THEN Sleep(g, "pacing", PacingDelay)
        ELSE Finish(g)

\* results.append(result), the abort test, then the pacing sleep or the end
\* of the loop.
AfterResult(f, p, result) ==
    LET g == [f EXCEPT !.results = Append(@, result)]
    IN  IF ShouldAbort(result, p[f.i + 1]) THEN Finish(g)
        ELSE IF f.i < Len(p) - 1 THEN Sleep(g, "pacing", PacingDelay)
        ELSE Finish(g)

\* Mutant: a slot is handed out when none is left.
CanAcquireOffByOne(sem) == sem >= 0

\* Semaphore: a slot is free (self._value > 0).
CanAcquire(sem) == sem > 0

\* Semaphore.locked(): no slot is free, or somebody is already waiting.
Locked(f) == ~CanAcquire(f.sem) \/ Len(f.waiters) > 0

\* The future of caller t in the queue of the semaphore has its result.
Woken(ws, t) == \E n \in 1..Len(ws) : ws[n].task = t /\ ws[n].done

\* Mutant: the longest waiter is passed over.
WakeUpNextSkipsFirst(f) ==
    LET pending == {n \in 2..Len(f.waiters) : ~f.waiters[n].done}
    IN  IF pending = {} THEN f
        ELSE LET n == CHOOSE m \in pending : \A o \in pending : m <= o
             IN  [f EXCEPT !.sem = @ - 1, !.waiters[n].done = TRUE]

\* Mutant: the waiter is woken without the slot being taken for it.
WakeUpNextKeepsSlot(f) ==
    LET pending == {n \in 1..Len(f.waiters) : ~f.waiters[n].done}
    IN  IF pending = {} THEN f
        ELSE LET n == CHOOSE m \in pending : \A o \in pending : m <= o
             IN  [f EXCEPT !.waiters[n].done = TRUE]

\* Semaphore._wake_up_next(): the slot goes to the first waiter whose future
\* is not done yet.
WakeUpNext(f) ==
    LET pending == {n \in 1..Len(f.waiters) : ~f.waiters[n].done}
    IN  IF pending = {} THEN f
        ELSE LET n == CHOOSE m \in pending : \A o \in pending : m <= o
             IN  [f EXCEPT !.sem = @ - 1, !.waiters[n].done = TRUE]

\* Mutant: the handler is called only while the coordinator is ready; after
\* shutdown the call is given up with the RuntimeError of entry.
CallHandlerChecksReady(f) ==
    IF f.ready
    THEN [f EXCEPT !.pc = "handler", !.calls[f.i + 1] = @ + 1]
    ELSE [f EXCEPT !.pc = "raised"]

\* The handler call inside `async with self.semaphore`: is_ready is not
\* looked at again.
CallHandler(f) ==
    [f EXCEPT !.pc = "handler", !.calls[f.i + 1] = @ + 1,
              !.handled_unready = @ \/ ~f.ready]

\* async with self.semaphore: take a slot and call the handler, or queue a
\* future and wait for it.
EnterGate(f) ==
    IF ~Locked(f)
    THEN CallHandler([f EXCEPT !.sem = @ - 1])
    ELSE [f EXCEPT !.pc = "acquire",
                   !.waiters = Append(@, [task |-> f.task, done |-> FALSE])]

\* Mutant: the caller whose future has its result waits on.
ResumeWaitsOn(f) == f

\* Semaphore.acquire after `await fut`: the future leaves the queue, a slot
\* still free is passed on, and the handler is called.
Resume(f) ==
    LET g == [f EXCEPT !.waiters = SelectSeq(@, LAMBDA w : w.task # f.task)]
    IN  CallHandler(IF CanAcquire(g.sem) THEN WakeUpNext(g) ELSE g)

\* One iteration of the loop of execute_plan up to its first await: the
\* handler lookup of _execute_action_with_retry and what follows it.
BeginStep(f, p) ==
    LET action == p[f.i + 1]
    IN  IF Resolve(action) = NoHandler
        THEN IF TypeValue(action.type) = AttributeError
             THEN ExceptFinish(f)
             ELSE AfterResult(f, p, UnknownResult(f.i))
        ELSE EnterGate([f EXCEPT !.attempt = 0])

\* Mutant: one attempt more.
MoreAttemptsOneTooMany(att) == att <= max_retries

\* Mutant: one attempt fewer.
MoreAttemptsOffByOne(att) == att < max_retries - 1

\* attempt < max_retries
MoreAttempts(att) == att < max_retries

\* Mutant: the delay grows by retry_delay with each attempt.
BackoffDelayLinear(att) == DefaultRetryDelay * (att + 1)

\* retry_delay * (2 ** attempt)
BackoffDelay(att) == DefaultRetryDelay * 2^att

\* Mutant: the slot kept when the handler is left.
ReleaseForgotten(f) == f

\* The end of `async with self.semaphore`, on return and on exception:
\* Semaphore.release().
Release(f) == WakeUpNext([f EXCEPT !.sem = @ + 1])

\* Mutant: a deadline around the handler call gives the slot back.
HangWithDeadline(f) == [Release(f) EXCEPT !.pc = "hung"]

\* `await handler(action)` never completes: the call stays inside
\* `async with self.semaphore`.
Hang(f) == [f EXCEPT !.pc = "hung"]

\* Mutant: the increment left out.
AddRetryForgotten(st) == st

\* self.stats["total_retries"] += 1
AddRetry(st) == [st EXCEPT !.total_retries = @ + 1]

\* Mutant: the readiness test left out.
NotReadyIgnored == FALSE

\* if not self.is_ready
NotReady == ~is_ready

\* raise RuntimeError: nothing is returned; the history keeps the lifecycle
\* state the rejected call met.
Rejected(met) ==
    [kind |-> "raised", error |-> "RuntimeError", lifecycle |-> met,
     initialize |-> initialize_result]

\* The fields of the coordinator shutdown and get_status work on.
Coordinator ==
    [is_ready |-> is_ready, active |-> active, stats |-> stats,
     semaphore |-> semaphore]

\* Mutant: shutdown also clears the counters.
ShutdownResetsStats(c) ==
    [c EXCEPT !.is_ready = FALSE, !.active = FALSE,
              !.stats = [actions_executed |-> 0, actions_failed |-> 0,
                         total_retries |-> 0, total_duration |-> 0]]

\* Mutant: only self.active is cleared.
ShutdownKeepsReady(c) == [c EXCEPT !.active = FALSE]

\* shutdown(): self.is_ready = False; self.active = False
Shutdown(c) == [c EXCEPT !.is_ready = FALSE, !.active = FALSE]

\* The dict object self.stats.
StatsObject == "self.stats"

\* Mutant: the dict itself handed out.
DictCopyAliases(obj) == obj

\* dict.copy(): a new dict object with the same contents.
DictCopy(obj) == "copy"

\* The dict get_status builds, its stats entry given by the object it holds
\* (stats_obj) and that object's contents at the call.
GetStatus(c) ==
    [kind |-> "status",
     is_ready |-> c.is_ready,
     is_active |-> c.active,
     stats_obj |-> DictCopy(StatsObject),
     stats |-> c.stats,
     max_parallel |-> c.semaphore,
     available_actions |-> action_handlers]

\* The counters read through the returned status dict now.
SnapshotCounters ==
    IF status_dict.stats_obj = StatsObject THEN stats ELSE copy_stats

\* ---------------------------------------------------------------- actions
\* Mutant: the browser counts as available whatever its state.
IsAvailableAlways(b) == TRUE

\* BrowserController.is_available()
is_available(b) == b.is_initialized /\ b.is_active /\ b.page # "None"

\* initialize(): ready only when the browser is available; RuntimeError
\* otherwise. is_available() has no await inside, so the call is one step.
initialize ==
    /\ IF is_available(controller)
       THEN /\ is_ready' = TRUE /\ active' = TRUE /\ lifecycle' = "initialized"
            /\ initialize_result' = "returned"
       ELSE /\ initialize_result' = "RuntimeError"
            /\ UNCHANGED <<is_ready, active, lifecycle>>
    /\ UNCHANGED <<semaphore, stats, max_retries, plan, pc, i, attempt, results,
                   summary, calls, raises, status_dict, copy_stats,
                   execution_id, sleeps, browser, uuid4, waiters,
                   handled_unready, controller, tokenVars, adjusted>>

\* execute_plan(plan) from its entry to its first await.
execute_plan(t) ==
    /\ pc[t] = "idle"
    /\ IF NotReady
       THEN Commit(t, [Frame(t) EXCEPT !.pc = "raised",
                                       !.summary = Rejected(lifecycle)])
       ELSE LET f == [Frame(t) EXCEPT !.execution_id = ExecutionId(uuid4[t]),
                                      !.results = <<>>, !.i = 0]
            IN  IF Len(plan[t]) = 0
                THEN Commit(t, Finish(f))
                ELSE Commit(t, BeginStep(f, plan[t]))

\* The pacing sleep ends: the next iteration of the loop.
PacingDone(t) ==
    /\ pc[t] = "pacing"
    /\ Commit(t, BeginStep([Frame(t) EXCEPT !.i = @ + 1], plan[t]))

\* A caller waiting on the semaphore was handed a slot: it resumes and calls
\* the handler.
Acquire(t) ==
    /\ pc[t] = "acquire"
    /\ Woken(waiters, t)
    /\ Commit(t, Resume(Frame(t)))

\* The handler returns: the slot is released and the result is completed.
HandlerReturns(t) ==
    /\ pc[t] = "handler"
    /\ LET f == Release(Frame(t))
       IN  Commit(t, AfterResult(f, plan[t], CompletedResult(f.i, f.attempt)))

\* The handler raises: the slot is released, total_retries grows, and the
\* call backs off or gives the step up.
HandlerRaises(t) ==
    /\ pc[t] = "handler"
    /\ LET f == [Release(Frame(t)) EXCEPT
                                 !.raises[i[t] + 1] = @ + 1,
                                 !.stats = AddRetry(@)]
           error_msg == ErrorMessage(f.attempt)
       IN  IF MoreAttempts(f.attempt)
           THEN Commit(t, Sleep(f, "backoff", BackoffDelay(f.attempt)))
           ELSE Commit(t, AfterResult(f, plan[t],
                                      FailedResult(f.i, f.attempt, error_msg)))

\* The backoff sleep ends: the next attempt.
BackoffDone(t) ==
    /\ pc[t] = "backoff"
    /\ Commit(t, EnterGate([Frame(t) EXCEPT !.attempt = @ + 1]))

\* shutdown()
shutdown ==
    /\ LET c == Shutdown(Coordinator)
       IN  /\ is_ready' = c.is_ready
           /\ active' = c.active
           /\ stats' = c.stats
           /\ semaphore' = c.semaphore
    /\ lifecycle' = IF lifecycle \in {"shutdown", "shutdown again"}
                    THEN "shutdown again" ELSE "shutdown"
    /\ UNCHANGED <<max_retries, plan, pc, i, attempt, results, summary, calls,
                   raises, status_dict, copy_stats, execution_id, sleeps, browser, uuid4, waiters,
                   handled_unready, controller, initialize_result, tokenVars,
                   adjusted>>

\* get_status(): the first call, whose returned dict the caller keeps.
get_status ==
    /\ status_dict = NoStatus
    /\ status_dict' = GetStatus(Coordinator)
    /\ copy_stats' = IF status_dict'.stats_obj = StatsObject THEN copy_stats
                     ELSE stats
    /\ UNCHANGED <<is_ready, active, semaphore, stats, max_retries, plan, pc, i,
                   attempt, results, summary, calls, raises, lifecycle,
                   execution_id, sleeps, browser, uuid4, waiters,
                   handled_unready, controller, initialize_result, tokenVars,
                   adjusted>>

\* The caller overwrites a counter in the dict it was handed.
CallerWritesSnapshot ==
    /\ status_dict # NoStatus
    /\ SnapshotCounters.actions_executed >= 0
    /\ IF status_dict.stats_obj = StatsObject
       THEN /\ stats' = [stats EXCEPT !.actions_executed = -1]
            /\ UNCHANGED copy_stats
       ELSE /\ copy_stats' = [copy_stats EXCEPT !.actions_executed = -1]
            /\ UNCHANGED stats
    /\ UNCHANGED <<is_ready, active, semaphore, max_retries, plan, pc, i,
                   attempt, results, summary, calls, raises, lifecycle, status_dict,
                   execution_id, sleeps, browser, uuid4, waiters,
                   handled_unready, controller, initialize_result, tokenVars,
                   adjusted>>

Next ==
    \/ initialize
    \/ \E t \in Tasks : execute_plan(t)
    \/ \E t \in Tasks : PacingDone(t)
    \/ \E t \in Tasks : Acquire(t)
    \/ \E t \in Tasks : HandlerReturns(t)
    \/ \E t \in Tasks : HandlerRaises(t)
    \/ \E t \in Tasks : BackoffDone(t)

Spec == Init /\ [][Next]_vars

\* The lifecycle and status calls interleaved with two plans: any action
\* followed by a registered one, and a single registered action.
LifecycleInit ==
    LET click == [type |-> EnumType("click"), retry_on_fail |-> TRUE]
    IN  \E a \in Actions :
            Constructed([t \in Tasks |-> IF t = "t1" THEN <<a, click>>
                                         ELSE <<click>>],
                        MaxRetries, CHOOSE u \in DistinctDraws : TRUE)

LifecycleNext == Next \/ shutdown \/ get_status \/ CallerWritesSnapshot

LifecycleSpec == LifecycleInit /\ [][LifecycleNext]_vars

\* The scenario of the retry policy at its default: three registered
\* actions, retry_attempts = 3, while a second caller runs one action.
ScenarioInit ==
    LET navigate == [type |-> EnumType("navigate"), retry_on_fail |-> TRUE]
        click == [type |-> EnumType("click"), retry_on_fail |-> TRUE]
        extract_data == [type |-> EnumType("extract_data"), retry_on_fail |-> TRUE]
    IN  Constructed([t \in Tasks |-> IF t = "t1"
                                     THEN <<navigate, click, extract_data>>
                                     ELSE <<click>>],
                    DefaultRetryAttempts, CHOOSE u \in DistinctDraws : TRUE)

ScenarioSpec == ScenarioInit /\ [][Next]_vars

\* The handler never returns and never raises.
HandlerHangs(t) ==
    /\ pc[t] = "handler"
    /\ Commit(t, Hang(Frame(t)))

HangNext == Next \/ \E t \in Tasks : HandlerHangs(t)

\* Handlers that may hang, under the plans of LifecycleInit.
HangSpec == LifecycleInit /\ [][HangNext]_vars

\* ------------------------------------------------------------ progress
\* What the event loop and the handlers are taken to guarantee: a sleep that
\* has been started ends, a caller whose future was given its result is
\* resumed, and a handler invocation returns or raises.
Fairness ==
    \A t \in Tasks :
        /\ WF_vars(PacingDone(t))
        /\ WF_vars(BackoffDone(t))
        /\ WF_vars(Acquire(t))
        /\ WF_vars(HandlerReturns(t) \/ HandlerRaises(t))

\* Two plans under the event loop's scheduling, the plans of LifecycleInit.
LiveSpec == LifecycleInit /\ [][Next]_vars /\ Fairness

\* ------------------------------------- the browser coming and going
\* BrowserController.initialize(): the page is created, then, after further
\* awaits, the two flags are set.
browser_initialize ==
    /\ ~controller.is_initialized /\ ~controller.is_active
    /\ controller' = IF controller.page = "None"
                     THEN [controller EXCEPT !.page = "page"]
                     ELSE [controller EXCEPT !.is_initialized = TRUE,
                                             !.is_active = TRUE]
    /\ UNCHANGED <<is_ready, active, semaphore, stats, max_retries, plan, pc, i,
                   attempt, results, summary, calls, raises, lifecycle,
                   status_dict, copy_stats, execution_id, sleeps, browser,
                   uuid4, waiters, handled_unready, initialize_result,
                   tokenVars, adjusted>>

\* BrowserController.close(): is_active is cleared, then the page is closed
\* and dropped, then, after the browser has stopped, is_initialized is cleared.
browser_close ==
    /\ controller.is_initialized
    /\ controller' = IF controller.is_active
                     THEN [controller EXCEPT !.is_active = FALSE]
                     ELSE IF controller.page # "None"
                     THEN [controller EXCEPT !.page = "None"]
                     ELSE [controller EXCEPT !.is_initialized = FALSE]
    /\ UNCHANGED <<is_ready, active, semaphore, stats, max_retries, plan, pc, i,
                   attempt, results, summary, calls, raises, lifecycle,
                   status_dict, copy_stats, execution_id, sleeps, browser,
                   uuid4, waiters, handled_unready, initialize_result,
                   tokenVars, adjusted>>

\* The program as main's __init__ leaves it, the browser not started: any
\* action followed by a registered one for one caller and a registered one
\* for the other.
AvailabilityInit ==
    LET click == [type |-> EnumType("click"), retry_on_fail |-> TRUE]
    IN  \E a \in Actions :
            /\ CoordinatorConstructed([t \in Tasks |-> IF t = "t1"
                                                       THEN <<a, click>>
                                                       ELSE <<click>>],
                                      MaxRetries,
                                      CHOOSE u \in DistinctDraws : TRUE)
            /\ controller = BrowserCreated
            /\ TokenManagerAt(0)
            /\ adjusted = NoCall

AvailabilityNext == Next \/ shutdown \/ browser_initialize \/ browser_close

\* The coordinator used while the browser is started and closed.
AvailabilitySpec == AvailabilityInit /\ [][AvailabilityNext]_vars

\* ------------------------------------------- the handlers and the browser
\* An optional field of an Action (target, value): None or a proper value.
Fields == {"None", "given"}

\* The actions whose handlers are followed into the browser controller.
HandlerActions ==
    [type : {EnumType(tag) : tag \in {"click", "input_text", "extract_data",
                                      "scroll", "execute_script"}},
     retry_on_fail : BOOLEAN, target : Fields, value : Fields]

\* What the page does to one handler invocation: the operation works, the
\* element is not there (wait_for_selector times out or has no selector), or
\* the element is there and the operation itself raises inside the
\* controller.
BrowserOutcomes(action) ==
    IF action.type.tag \in {"click", "input_text", "extract_data"}
    THEN IF action.target = "None" THEN {"no element"}
         ELSE {"ok", "no element", "error"}
    ELSE {"ok", "error"}

Raise == "raise"
Return == "return"

\* BrowserController.find_element: the element, or None (also on exception).
find_element(o) == IF o = "no element" THEN "None" ELSE "element"

\* BrowserController.click_element: True, or False when element.click raised.
click_element(o) == o # "error"

\* BrowserController.clear_element: True, or False when element.fill raised.
clear_element(o) == o # "error"

\* BrowserController.input_text: True, or False when element.fill raised.
input_text(o) == o # "error"

\* BrowserController.extract_data: the data, or None when the element is not
\* found or reading it raised.
extract_data(o) == IF o = "ok" THEN "data" ELSE "None"

\* BrowserController.scroll_page: True, or False when page.evaluate raised.
scroll_page(o) == o # "error"

\* BrowserController.execute_script: the value, or the exception re-raised.
execute_script(o) == IF o = "error" THEN Raise ELSE "result"

\* _execute_click: the value click_element returns is not looked at.
ExecuteClick(action, o) ==
    LET element == find_element(o)
    IN  IF element = "None" THEN Raise
        ELSE LET clicked == click_element(o) IN Return

\* if not text: raise ValueError
NoText(action) == action.value = "None"

\* _execute_input_text: the values clear_element and input_text return are
\* not looked at.
ExecuteInputText(action, o) ==
    IF NoText(action) THEN Raise
    ELSE LET element == find_element(o)
         IN  IF element = "None" THEN Raise
             ELSE LET cleared == clear_element(o)
                      entered == input_text(o)
                  IN  Return

\* _execute_extract_data: the data, None included, goes into the result.
ExecuteExtractData(action, o) == LET data == extract_data(o) IN Return

\* _execute_scroll: the value scroll_page returns is not looked at.
ExecuteScroll(action, o) == LET scrolled == scroll_page(o) IN Return

\* script = action.target or action.value; if not script: raise ValueError
NoScript(action) == action.target = "None" /\ action.value = "None"

\* _execute_script
ExecuteScript(action, o) ==
    IF NoScript(action) THEN Raise
    ELSE IF execute_script(o) = Raise THEN Raise ELSE Return

\* The handler raises before its first await on the browser.
RaisesBeforeBrowser(action) ==
    \/ Resolve(action) = "input_text" /\ NoText(action)
    \/ Resolve(action) = "execute_script" /\ NoScript(action)

\* handler(action), the browser answering o.
Handler(action, o) ==
    CASE Resolve(action) = "click" -> ExecuteClick(action, o)
      [] Resolve(action) = "input_text" -> ExecuteInputText(action, o)
      [] Resolve(action) = "extract_data" -> ExecuteExtractData(action, o)
      [] Resolve(action) = "scroll" -> ExecuteScroll(action, o)
      [] Resolve(action) = "execute_script" -> ExecuteScript(action, o)

\* The browser's answers to the invocations of step k (0-based) of caller t.
Answers(t, k) == SelectSeq(browser[t], LAMBDA e : e.step = k)

\* The running invocation of caller t has had its answer from the browser.
Answered(t) == Len(Answers(t, i[t])) = calls[t][i[t] + 1]

\* The handler of caller t awaits the browser, and the browser answers.
BrowserResponds(t) ==
    /\ pc[t] = "handler"
    /\ ~RaisesBeforeBrowser(plan[t][i[t] + 1])
    /\ ~Answered(t)
    /\ \E o \in BrowserOutcomes(plan[t][i[t] + 1]) :
          browser' = [browser EXCEPT ![t] = Append(@, [step |-> i[t], outcome |-> o])]
    /\ UNCHANGED <<is_ready, active, semaphore, stats, max_retries, plan, pc, i,
                   attempt, results, summary, calls, raises, lifecycle,
                   status_dict, copy_stats, execution_id, sleeps, uuid4, waiters,
                   handled_unready, controller, initialize_result, tokenVars,
                   adjusted>>

\* The handler body runs to its end: it returns or raises as its code says.
HandlerFinishes(t) ==
    /\ pc[t] = "handler"
    /\ LET action == plan[t][i[t] + 1]
       IN  IF RaisesBeforeBrowser(action)
           THEN HandlerRaises(t)
           ELSE /\ Answered(t)
                /\ LET o == browser[t][Len(browser[t])].outcome
                   IN  IF Handler(action, o) = Raise
                       THEN HandlerRaises(t)
                       ELSE HandlerReturns(t)

\* One caller runs any action with a handler followed into the browser,
\* then a click; a second caller runs a click.
HandlerInit ==
    LET click == [type |-> EnumType("click"), retry_on_fail |-> TRUE,
                  target |-> "given", value |-> "None"]
    IN  \E a \in HandlerActions :
            Constructed([t \in Tasks |-> IF t = "t1" THEN <<a, click>>
                                         ELSE <<click>>],
                        MaxRetries, CHOOSE u \in DistinctDraws : TRUE)

HandlerNext ==
    \/ initialize
    \/ \E t \in Tasks : execute_plan(t)
    \/ \E t \in Tasks : PacingDone(t)
    \/ \E t \in Tasks : Acquire(t)
    \/ \E t \in Tasks : BrowserResponds(t)
    \/ \E t \in Tasks : HandlerFinishes(t)
    \/ \E t \in Tasks : BackoffDone(t)

HandlerSpec == HandlerInit /\ [][HandlerNext]_vars

\* Two calls under every outcome of the two random draws, equal ones
\* included.
IdInit ==
    LET click == [type |-> EnumType("click"), retry_on_fail |-> TRUE]
    IN  \E a \in Actions : \E u \in [Tasks -> Uuid4Hex6] :
            Constructed([t \in Tasks |-> IF t = "t1" THEN <<a, click>>
                                         ELSE <<click>>],
                        MaxRetries, u)

IdSpec == IdInit /\ [][Next]_vars

\* ----------------------------------------------------------------- claims
Registered(action) == Resolve(action) # NoHandler

\* The ledger of the summary caller t got back.
Ledger(t) == summary[t].results

Returned(t) == pc[t] = "done"

\* Caller t's loop has reached action k (1-based) and run its handler lookup.
StepEntered(t, k) == pc[t] \notin {"idle", "raised"} /\ i[t] >= k - 1

\* C1: at most max_parallel_actions handler bodies execute at once, whatever
\* number of execute_plan calls run; with bound 1 no two overlap.
GateBoundsRunningHandlers ==
    Cardinality({t \in Tasks : pc[t] = "handler"}) <= MaxParallel

\* C1 witness: one call's handler runs while another call waits at the gate.
GateHoldsBackSecondCaller ==
    \E t, u \in Tasks : pc[t] = "handler" /\ pc[u] = "acquire"

\* C2: within one call, a handler invocation for an action has begun only if
\* every earlier action of the plan has its terminal result in the ledger
\* (completed, or failed after all attempts), and while an action's attempts
\* go on (handler, gate wait, backoff) the ledger holds exactly the results
\* of the actions before it.
StepsRunInPlanOrder ==
    \A t \in Tasks :
        /\ \A k \in 1..Len(plan[t]) :
              calls[t][k] > 0 => Len(results[t]) >= k - 1
        /\ pc[t] \in {"handler", "acquire", "backoff"} => Len(results[t]) = i[t]
        /\ \A k \in 1..Len(results[t]) :
              /\ results[t][k].status \in {"completed", "failed"}
              /\ (results[t][k].status = "failed" /\ Registered(plan[t][k]))
                    => raises[t][k] = MaxRetries + 1

\* C2 witness: the second action's handler runs after the first action
\* failed on all of its attempts.
SecondStepAfterExhaustedFirst ==
    \E t \in Tasks :
        /\ pc[t] = "handler" /\ i[t] = 1
        /\ results[t][1].status = "failed" /\ Registered(plan[t][1])

\* C3: a registered action whose handler raised on every invocation was
\* invoked exactly MaxRetries + 1 times and its result is failed with
\* retry_count = MaxRetries; no action is ever invoked more often, and the
\* result is there as soon as the last attempt has raised.
AlwaysFailingHandlerExhaustsRetries ==
    \A t \in Tasks : \A k \in 1..Len(plan[t]) :
        /\ calls[t][k] <= MaxRetries + 1
        /\ raises[t][k] = MaxRetries + 1 => k <= Len(results[t])
        /\ (k <= Len(results[t]) /\ Registered(plan[t][k])
                /\ raises[t][k] = calls[t][k])
              => /\ calls[t][k] = MaxRetries + 1
                 /\ results[t][k].status = "failed"
                 /\ results[t][k].retry_count = MaxRetries

\* C3 witness: a step has failed after MaxRetries + 1 raising invocations.
SomeStepExhausted ==
    \E t \in Tasks : \E k \in 1..Len(results[t]) :
        /\ Registered(plan[t][k])
        /\ raises[t][k] = MaxRetries + 1
        /\ results[t][k].status = "failed"

\* C4: once an invocation of a step's handler has returned, after k raising
\* ones, the step's result is completed with retry_count = k <= MaxRetries
\* and the handler is not invoked for that step again.
SuccessOnAttemptKCounted ==
    \A t \in Tasks : \A k \in 1..Len(plan[t]) :
        /\ (calls[t][k] > raises[t][k] /\ ~(pc[t] = "handler" /\ i[t] = k - 1))
              => /\ k <= Len(results[t])
                 /\ results[t][k].status = "completed"
                 /\ results[t][k].retry_count = raises[t][k]
                 /\ calls[t][k] = raises[t][k] + 1
                 /\ raises[t][k] <= MaxRetries
        /\ (k <= Len(results[t]) /\ results[t][k].status = "completed")
              => /\ results[t][k].retry_count = raises[t][k]
                 /\ calls[t][k] = raises[t][k] + 1

\* C4 witness: one ledger holds a first-try success (k = 0) and a success on
\* the last attempt allowed (k = MaxRetries).
FirstTryAndLastTrySuccess ==
    \E t \in Tasks :
        /\ Len(results[t]) = 2
        /\ results[t][1].status = "completed" /\ results[t][1].retry_count = 0
        /\ results[t][2].status = "completed"
        /\ results[t][2].retry_count = MaxRetries
        /\ raises[t][2] = MaxRetries

\* C5: a failed result of an action with retry_on_fail = false is the last
\* entry of the ledger; the call has returned with success = false and no
\* handler of a later action was ever invoked.
FatalFailureAbortsPlan ==
    \A t \in Tasks : \A k \in 1..Len(results[t]) :
        (results[t][k].status = "failed" /\ ~plan[t][k].retry_on_fail)
           => /\ Returned(t)
              /\ k = Len(results[t])
              /\ summary[t].kind = "summary"
              /\ Len(Ledger(t)) = k
              /\ Ledger(t)[k].status = "failed"
              /\ summary[t].success = FALSE
              /\ \A m \in (k + 1)..Len(plan[t]) : calls[t][m] = 0

\* C5 witness: a plan aborted by a handler failure with a registered action
\* still ahead.
AbortedBeforeLaterAction ==
    \E t \in Tasks : \E k \in 1..Len(results[t]) :
        /\ results[t][k].status = "failed" /\ ~plan[t][k].retry_on_fail
        /\ raises[t][k] = MaxRetries + 1
        /\ k < Len(plan[t]) /\ Registered(plan[t][k + 1])

\* C6 (as claimed): after a failed step with retry_on_fail = true, every
\* later action gets its result in the returned ledger, unless a later
\* step with retry_on_fail = false failed and aborted the plan.
NonFatalFailureContinuesPlan ==
    \A t \in Tasks :
        Returned(t) =>
           \A k \in 1..Len(Ledger(t)) :
              (/\ Ledger(t)[k].status = "failed"
               /\ plan[t][k].retry_on_fail
               /\ ~\E m \in (k + 1)..Len(Ledger(t)) :
                      Ledger(t)[m].status = "failed" /\ ~plan[t][m].retry_on_fail)
                 => Len(Ledger(t)) = Len(plan[t])

\* C7 (as claimed): a returned ledger is never longer than the plan, and it
\* is shorter only when its last entry is a failed step with
\* retry_on_fail = false.
LedgerShortOnlyAfterAbort ==
    \A t \in Tasks :
        Returned(t) =>
           /\ Len(Ledger(t)) <= Len(plan[t])
           /\ Len(Ledger(t)) < Len(plan[t])
                 => /\ Len(Ledger(t)) > 0
                    /\ Ledger(t)[Len(Ledger(t))].status = "failed"
                    /\ ~plan[t][Len(Ledger(t))].retry_on_fail

\* C8 (as claimed): whenever a step with retry_on_fail = false ended failed,
\* at any position, the returned ledger is shorter than the plan.
FatalFailureShortensLedger ==
    \A t \in Tasks :
        (Returned(t) /\ \E k \in 1..Len(Ledger(t)) :
              Ledger(t)[k].status = "failed" /\ ~plan[t][k].retry_on_fail)
           => Len(Ledger(t)) < Len(plan[t])

\* C8 (amended): when the step at position k (1-based) with
\* retry_on_fail = false ended failed, the returned ledger has exactly k
\* results: it is shorter than the plan when the step is not the last
\* action and as long as the plan when it is.
FatalFailureEndsLedgerAtStep ==
    \A t \in Tasks : \A k \in 1..Len(results[t]) :
        (Returned(t) /\ results[t][k].status = "failed"
            /\ ~plan[t][k].retry_on_fail)
           => /\ Len(Ledger(t)) = k
              /\ (Len(Ledger(t)) < Len(plan[t]) <=> k < Len(plan[t]))

\* C8 witness: the last action of a plan failed with retry_on_fail = false
\* and the ledger is as long as the plan.
FatalFailureOnLastAction ==
    \E t \in Tasks :
        /\ Returned(t) /\ Len(plan[t]) > 0
        /\ Len(Ledger(t)) = Len(plan[t])
        /\ Ledger(t)[Len(plan[t])].status = "failed"
        /\ ~plan[t][Len(plan[t])].retry_on_fail

\* C9 (as claimed): in every returned summary, success is true exactly
\* when every result of its ledger is completed.
SuccessIffAllCompleted ==
    \A t \in Tasks :
        Returned(t) => (summary[t].success <=> AllCompleted(Ledger(t)))

\* C10 (as claimed): an action whose tag has no handler gets, as soon as the
\* loop reaches it, a failed result with retry_count 0, with no handler
\* invocation and no retry counted for it.
UnknownTypeFailsWithoutRetry ==
    \A t \in Tasks : \A k \in 1..Len(plan[t]) :
        (~Registered(plan[t][k]) /\ StepEntered(t, k))
           => /\ k <= Len(results[t])
              /\ results[t][k].status = "failed"
              /\ results[t][k].retry_count = 0
              /\ calls[t][k] = 0
              /\ raises[t][k] = 0

\* ------------------------------------------------- claims C11 to C20
RECURSIVE SumFn(_, _)
\* The sum of f[x] over the x in S.
SumFn(f, S) ==
    IF S = {} THEN 0
    ELSE LET x == CHOOSE y \in S : TRUE IN f[x] + SumFn(f, S \ {x})

\* The sum of the entries of a sequence of numbers.
SumSeq(q) == SumFn(q, DOMAIN q)

HasShutDown(l) == l \in {"shutdown", "shutdown again"}

\* C11: a call made on a ready coordinator never ends by raising; when the
\* loop itself raises, the call returns a summary with success = false, an
\* error field and exactly the results accumulated until then.
OrchestrationErrorReturnsSummary ==
    [][\A t \in Tasks :
          /\ (pc[t] # "raised" /\ pc'[t] = "raised") => ~is_ready
          /\ (summary[t].kind # "error" /\ summary'[t].kind = "error")
                => /\ pc'[t] = "done"
                   /\ summary'[t].success = FALSE
                   /\ summary'[t].error = AttributeError
                   /\ summary'[t].results =
                         [k \in 1..Len(results[t]) |-> result_to_dict(results[t][k])]
                   /\ results'[t] = results[t]]_vars

\* C11 witness: an error summary that carries a partial ledger.
ErrorSummaryWithPartialLedger ==
    \E t \in Tasks : summary[t].kind = "error" /\ Len(Ledger(t)) > 0

\* C12: once a handler of an action has raised, the call has neither raised
\* nor taken the orchestration-error exit at that action: either the action
\* is still being attempted, or its result is in the ledger, and a failed
\* result carries the message of the last attempt's failure.
HandlerFailureBecomesResult ==
    \A t \in Tasks : \A k \in 1..Len(plan[t]) :
        raises[t][k] > 0 =>
           /\ pc[t] # "raised"
           /\ summary[t].kind = "error" => i[t] # k - 1
           /\ \/ /\ i[t] = k - 1
                 /\ pc[t] \in {"backoff", "acquire", "handler"}
                 /\ raises[t][k] <= max_retries
              \/ /\ k <= Len(results[t])
                 /\ \/ results[t][k].status = "completed"
                    \/ /\ results[t][k].status = "failed"
                       /\ raises[t][k] = max_retries + 1
                       /\ results[t][k].error = ErrorMessage(raises[t][k] - 1)

\* C12 witness: a failed result whose error is the message of the failure of
\* the last attempt, after earlier failures with other messages.
FailedResultCarriesLastMessage ==
    \E t \in Tasks : \E k \in 1..Len(results[t]) :
        /\ max_retries > 0
        /\ raises[t][k] = max_retries + 1
        /\ results[t][k].status = "failed"
        /\ results[t][k].error = ErrorMessage(max_retries)

\* C13: a call made while the coordinator is not ready raises at once: no
\* handler is invoked, the semaphore and the counters are untouched and
\* there is no ledger and no summary.
NotReadyCallRejected ==
    [][\A t \in Tasks :
          (pc[t] = "idle" /\ pc'[t] # "idle" /\ ~is_ready)
             => /\ pc'[t] = "raised"
                /\ summary'[t].kind = "raised"
                /\ results'[t] = <<>>
                /\ \A k \in 1..Len(plan[t]) : calls'[t][k] = 0
                /\ semaphore' = semaphore
                /\ stats' = stats]_vars

\* C13 witness: a call rejected after shutdown while another call, accepted
\* before, has counted its results.
RejectedAfterShutdown ==
    \E t \in Tasks :
        /\ pc[t] = "raised" /\ HasShutDown(summary[t].lifecycle)
        /\ stats.actions_executed > 0

\* C14: a shutdown call leaves is_ready and active false and the counters
\* and the semaphore as they were; a shutdown call after a shutdown changes
\* nothing; and a call of execute_plan made after shutdown, before a new
\* initialize, is rejected.
ShutdownIdempotentAndDisables ==
    [][/\ (HasShutDown(lifecycle') /\ lifecycle' # lifecycle)
             => /\ ~is_ready' /\ ~active'
                /\ stats' = stats /\ semaphore' = semaphore
                /\ Shutdown(Coordinator') = Coordinator'
                /\ HasShutDown(lifecycle) => Coordinator' = Coordinator
       /\ \A t \in Tasks :
             (HasShutDown(lifecycle) /\ pc[t] = "idle" /\ pc'[t] # "idle")
                => pc'[t] = "raised"]_vars

\* C14 witness: a call rejected after two shutdown calls in a row.
RejectedAfterSecondShutdown ==
    \E t \in Tasks :
        pc[t] = "raised" /\ summary[t].lifecycle = "shutdown again"

\* C15 (as claimed): the lifetime counters hold the totals of the ledgers of
\* all the summaries returned so far, whichever way each call ended.
CountersHoldLedgerTotals ==
    LET returned == {t \in Tasks : Returned(t)}
    IN  /\ stats.actions_executed =
              SumFn([t \in Tasks |-> Len(Ledger(t))], returned)
        /\ stats.actions_failed =
              SumFn([t \in Tasks |-> CountStatus(Ledger(t), "failed")], returned)

\* C16 (as claimed): when one call has returned and no other call has run,
\* total_retries equals the sum of retry_count over the returned ledger.
TotalRetriesIsSumOfRetryCounts ==
    \A t \in Tasks :
        (Returned(t) /\ \A u \in Tasks \ {t} : pc[u] \in {"idle", "raised"})
           => stats.total_retries =
                 SumSeq([k \in 1..Len(Ledger(t)) |-> Ledger(t)[k].retry_count])

\* C17: every raising handler invocation adds one to total_retries, so a
\* step completed after k failures has added exactly k = retry_count; and
\* the plan [ok, ok, fails twice then succeeds] with retry_attempts = 3
\* returns total_actions = 3, successful_actions = 3, retry_count 2 for the
\* third result, with total_retries grown by 2.
RetriedSuccessAddsItsRetries ==
    /\ stats.total_retries = SumFn([t \in Tasks |-> SumSeq(raises[t])], Tasks)
    /\ \A t \in Tasks : \A k \in 1..Len(results[t]) :
          results[t][k].status = "completed"
             => /\ results[t][k].retry_count = raises[t][k]
                /\ raises[t][k] <= max_retries
    /\ (Returned("t1") /\ raises["t1"] = <<0, 0, 2>>)
          => /\ summary["t1"].kind = "summary"
             /\ summary["t1"].success
             /\ summary["t1"].total_actions = 3
             /\ summary["t1"].successful_actions = 3
             /\ Ledger("t1")[3].retry_count = 2
             /\ stats.total_retries = 2 + SumSeq(raises["t2"])

\* C17 witness: the scenario has run: two first-try successes, then a step
\* that succeeds on its third invocation.
ScenarioHasRun ==
    /\ Returned("t1")
    /\ calls["t1"] = <<1, 1, 3>>
    /\ raises["t1"] = <<0, 0, 2>>
    /\ max_retries = DefaultRetryAttempts

\* C18 (as claimed): in every state, the max_parallel entry of the dict
\* get_status builds is the configured bound.
StatusMaxParallelIsBound ==
    GetStatus(Coordinator).max_parallel = MaxParallel

\* C19: the counters of a returned status are those of the moment of the
\* call; a write of the caller into the returned dict leaves the
\* coordinator's counters as they are, and no step of an execute_plan call
\* changes the returned dict.
StatusCountersAreACopy ==
    [][/\ (status_dict = NoStatus /\ status_dict' # NoStatus)
             => SnapshotCounters' = stats
       /\ (status_dict # NoStatus /\ pc' = pc /\ lifecycle' = lifecycle)
             => stats' = stats
       /\ (status_dict # NoStatus /\ pc' # pc)
             => /\ status_dict' = status_dict
                /\ SnapshotCounters' = SnapshotCounters]_vars

\* C19 witness: the caller has overwritten its snapshot and a later call
\* has raised the coordinator's counters past the snapshot's.
SnapshotAndCountersDiverged ==
    /\ status_dict # NoStatus
    /\ status_dict.stats.actions_executed = 0
    /\ SnapshotCounters.actions_executed = -1
    /\ stats.actions_executed > 0

\* C20: the four lifetime counters are zero at construction and no step
\* (initialize, execute_plan, get_status, shutdown, initialize again)
\* lowers any of them.
CountersNeverDecrease ==
    /\ stats = [actions_executed |-> 0, actions_failed |-> 0,
                total_retries |-> 0, total_duration |-> 0]
    /\ [][/\ stats'.actions_executed >= stats.actions_executed
          /\ stats'.actions_failed >= stats.actions_failed
          /\ stats'.total_retries >= stats.total_retries
          /\ stats'.total_duration >= stats.total_duration]_vars

\* C20 witness: the counters stand above zero after a shutdown and a new
\* initialize.
CountersKeptAcrossRestart ==
    /\ lifecycle = "initialized" /\ is_ready
    /\ \E t \in Tasks : pc[t] = "raised" /\ HasShutDown(summary[t].lifecycle)
    /\ stats.actions_executed > 0 /\ stats.actions_failed > 0
    /\ stats.total_retries > 0 /\ stats.total_duration > 0

\* ------------------------------------------------- claims C21 to C30
\* C21 (as claimed): the summaries of any two calls that returned carry
\* different execution_id values.
ExecutionIdsDiffer ==
    \A t, v \in Tasks :
        (t # v /\ Returned(t) /\ Returned(v))
           => summary[t].execution_id # summary[v].execution_id

\* The action's environment operation failed in every invocation of step k
\* (1-based) of caller t, and there was at least one.
OperationFailedEveryTime(t, k) ==
    LET answers == Answers(t, k - 1)
    IN  /\ Len(answers) > 0
        /\ \A n \in 1..Len(answers) : answers[n].outcome # "ok"

\* C22 (as claimed): a click, text input, scroll or extraction whose
\* environment operation failed in every attempt has a failed result with an
\* error in the ledger and makes the summary's success false; no result is
\* completed when the operation of its last attempt failed.
NoSilentFailure ==
    \A t \in Tasks : \A k \in 1..Len(results[t]) :
        LET answers == Answers(t, k - 1)
        IN  /\ OperationFailedEveryTime(t, k)
                  => /\ results[t][k].status = "failed"
                     /\ results[t][k].error # "none"
                     /\ Returned(t) => ~summary[t].success
            /\ (Len(answers) > 0 /\ results[t][k].status = "completed")
                  => answers[Len(answers)].outcome = "ok"

\* An input_text action with no text, an execute_script action with no
\* script.
Malformed(action) == RaisesBeforeBrowser(action)

\* C23 (as claimed): a malformed action is invoked at most once, waits in no
\* backoff, and its result is failed with retry_count 0.
MalformedActionFailsAtOnce ==
    \A t \in Tasks : \A k \in 1..Len(plan[t]) :
        Malformed(plan[t][k])
           => /\ calls[t][k] <= 1
              /\ \A n \in 1..Len(sleeps[t]) :
                    ~(sleeps[t][n].kind = "backoff" /\ sleeps[t][n].step = k - 1)
              /\ k <= Len(results[t])
                    => /\ results[t][k].status = "failed"
                       /\ results[t][k].retry_count = 0

\* The callers `async with self.semaphore` has let in, or is letting in: their
\* handler runs, or release() has just handed them the slot and they are
\* about to call the handler.
SlotHolders == {t \in Tasks : pc[t] = "handler" \/ Woken(waiters, t)}

\* C24: the slots taken from the semaphore are exactly those of the calls
\* whose handler body is running or is the very next thing they do: a call
\* in a backoff sleep, in the pacing sleep or still queued at the gate holds
\* none.
SlotHeldOnlyInsideHandler ==
    /\ semaphore = MaxParallel - Cardinality(SlotHolders)
    /\ \A t \in SlotHolders : pc[t] \in {"handler", "acquire"}

\* C24 witness: with every slot taken by another call's handler, a call
\* sits in its backoff sleep: the slot it had went to the other call.
OtherHandlerRunsDuringBackoff ==
    \E t, v \in Tasks :
        pc[t] = "backoff" /\ pc[v] = "handler" /\ semaphore = 0

\* The backoff sleeps of step k (1-based) of caller t, in order.
BackoffSleeps(t, k) ==
    SelectSeq(sleeps[t], LAMBDA e : e.kind = "backoff" /\ e.step = k - 1)

\* C25: the backoff sleeps of a step are retry_delay, then twice the one
\* before, one after each failed attempt but the last allowed one; attempt
\* n + 1 is not begun before sleep n, and none follows the final failure.
BackoffDoublesWithoutCap ==
    \A t \in Tasks : \A k \in 1..Len(plan[t]) :
        LET waits == BackoffSleeps(t, k)
        IN  /\ Len(waits) > 0 => waits[1].delay = DefaultRetryDelay
            /\ \A n \in 2..Len(waits) : waits[n].delay = 2 * waits[n - 1].delay
            /\ Len(waits) = IF raises[t][k] <= max_retries THEN raises[t][k]
                             ELSE max_retries
            /\ calls[t][k] <= Len(waits) + 1
            /\ (pc[t] = "backoff" /\ i[t] = k - 1) => calls[t][k] = Len(waits)

\* C25 witness: a step failed for good after sleeps of 1, 2 and 4 times the
\* base delay, with no sleep after its last attempt.
BackoffOneTwoFour ==
    \E t \in Tasks : \E k \in 1..Len(results[t]) :
        /\ results[t][k].status = "failed"
        /\ raises[t][k] = 4
        /\ [n \in 1..Len(BackoffSleeps(t, k)) |-> BackoffSleeps(t, k)[n].delay]
              = <<DefaultRetryDelay, 2 * DefaultRetryDelay, 4 * DefaultRetryDelay>>
        /\ Len(sleeps[t]) > 0 /\ sleeps[t][Len(sleeps[t])].kind = "backoff"
        /\ pc[t] = "done"

\* C26: every result of every returned ledger has retry_count between 0
\* and the configured retry_attempts.
RetryCountWithinBound ==
    \A t \in Tasks :
        Returned(t) =>
           \A k \in 1..Len(Ledger(t)) :
              /\ Ledger(t)[k].retry_count >= 0
              /\ Ledger(t)[k].retry_count <= max_retries

\* C26 witness: a returned ledger with a result at the upper end, completed
\* on the last allowed attempt, and one at the lower end.
LedgerSpansRetryRange ==
    \E t \in Tasks :
        /\ Returned(t) /\ Len(Ledger(t)) = 2 /\ max_retries > 0
        /\ Ledger(t)[1].status = "completed"
        /\ Ledger(t)[1].retry_count = max_retries
        /\ Ledger(t)[2].retry_count = 0

\* The pacing sleeps of caller t, in order.
PacingSleeps(t) == SelectSeq(sleeps[t], LAMBDA e : e.kind = "pacing")

\* C27: a call that has attempted its steps 0..i has slept in the pacing
\* pause exactly once after each of the steps before i (and after step i
\* when it is in the pause now); every pause follows a step that did not
\* abort the plan and was not the last action.
PacingBetweenAttemptedSteps ==
    \A t \in Tasks :
        LET pauses == PacingSleeps(t)
        IN  /\ \A n \in 1..Len(pauses) :
                  /\ pauses[n].step = n - 1
                  /\ pauses[n].delay = PacingDelay
                  /\ n < Len(plan[t])
                  /\ n <= Len(results[t])
                  /\ ~ShouldAbort(results[t][n], plan[t][n])
            /\ pc[t] \in {"idle", "raised"} => Len(pauses) = 0
            /\ pc[t] = "pacing" => Len(pauses) = i[t] + 1
            /\ pc[t] \in {"acquire", "handler", "backoff", "done"}
                  => Len(pauses) = i[t]
            /\ (Returned(t) /\ summary[t].kind = "summary" /\ Len(results[t]) > 0)
                  => Len(pauses) = Len(results[t]) - 1

\* C27 witness: a call returned after an aborting second step: one pause,
\* between the two steps, and none after the abort.
OnePauseThenAbort ==
    \E t \in Tasks :
        /\ Returned(t) /\ Len(results[t]) = 2
        /\ ShouldAbort(results[t][2], plan[t][2])
        /\ Len(PacingSleeps(t)) = 1

\* The calls whose handler will never return.
Hung == {t \in Tasks : pc[t] = "hung"}

\* C28: a hung handler call stays hung and keeps its slot; while as many
\* calls are hung as the semaphore has slots, no handler is invoked and a
\* call waiting at the gate stays there, so it never returns.
HungHandlersBlockTheGate ==
    [][/\ \A t \in Hung : pc'[t] = "hung"
       /\ semaphore' <= MaxParallel - Cardinality(Hung)
       /\ Cardinality(Hung) = MaxParallel
             => /\ semaphore' = 0
                /\ calls' = calls
                /\ \A t \in Tasks : pc[t] = "acquire" => pc'[t] = "acquire"]_vars

\* C28 witness: every slot is held by a hung handler and another call
\* waits at the gate.
CallerStuckBehindHungHandler ==
    /\ Cardinality(Hung) = MaxParallel
    /\ \E t \in Tasks : pc[t] = "acquire"

\* C29: every result a call has collected is completed or failed, an action
\* after an abort has no entry, and a normally returned summary has
\* successful_actions + failed_actions = total_actions = len(results).
LedgerHoldsOnlyTerminalResults ==
    \A t \in Tasks :
        /\ \A k \in 1..Len(results[t]) :
              results[t][k].status \in {"completed", "failed"}
        /\ \A k \in 1..Len(results[t]) :
              (k < Len(results[t])) => ~ShouldAbort(results[t][k], plan[t][k])
        /\ Returned(t)
              => /\ \A k \in 1..Len(Ledger(t)) :
                       Ledger(t)[k].status = results[t][k].status
                 /\ summary[t].kind = "summary"
                       => /\ summary[t].total_actions = Len(Ledger(t))
                          /\ summary[t].successful_actions + summary[t].failed_actions
                                = summary[t].total_actions

\* C29 witness: a normally returned summary counting an action without
\* handler as failed and the action after it as completed.
SummaryCountsUnknownAsFailed ==
    \E t \in Tasks :
        /\ Returned(t) /\ summary[t].kind = "summary"
        /\ Len(Ledger(t)) = 2
        /\ ~Registered(plan[t][1])
        /\ summary[t].failed_actions = 1
        /\ summary[t].successful_actions = 1

\* C30 (as claimed): once the loop has dealt with an action without handler,
\* the call has returned with that action as its last result when
\* retry_on_fail is false, and is in the pause before the next action or
\* past it when retry_on_fail is true and an action remains.
UnknownTagFollowsAbortPolicy ==
    \A t \in Tasks : \A k \in 1..Len(plan[t]) :
        (~Registered(plan[t][k]) /\ StepEntered(t, k))
           => /\ ~plan[t][k].retry_on_fail
                    => Returned(t) /\ Len(results[t]) <= k
              /\ (plan[t][k].retry_on_fail /\ k < Len(plan[t]))
                    => \/ pc[t] = "pacing" /\ i[t] = k - 1
                       \/ StepEntered(t, k + 1)

\* C32: the ledger a call returns follows the plan index by index: entry k
\* carries the identifier of step k and the outcome of the handler
\* invocations made for action k of the caller's own plan (completed after
\* one more call than raises, failed after every allowed call raised or, for
\* an action without handler, after none), so no action appears twice and
\* none is left out before the last entry.
LedgerIsPrefixOfPlan ==
    \A t \in Tasks :
        Returned(t) =>
            /\ Len(Ledger(t)) <= Len(plan[t])
            /\ \A k \in 1..Len(Ledger(t)) :
                  LET r == Ledger(t)[k]
                  IN  /\ r.action_id = <<"step", k - 1>>
                      /\ r.retry_count <= raises[t][k]
                      /\ r.status = "completed"
                            => /\ Registered(plan[t][k])
                               /\ calls[t][k] = raises[t][k] + 1
                               /\ r.retry_count = raises[t][k]
                      /\ r.status = "failed"
                            => IF Registered(plan[t][k])
                               THEN calls[t][k] = max_retries + 1
                                    /\ raises[t][k] = calls[t][k]
                               ELSE calls[t][k] = 0
            /\ \A k \in (Len(Ledger(t)) + 1)..Len(plan[t]) :
                  Registered(plan[t][k]) => calls[t][k] = 0

\* C32 witness: a returned ledger of two entries whose first is the failure
\* of the first action and whose second is the success of the second.
LedgerFailedThenCompleted ==
    \E t \in Tasks :
        /\ Returned(t) /\ Len(Ledger(t)) = 2
        /\ Ledger(t)[1].status = "failed" /\ raises[t][1] > 0
        /\ Ledger(t)[2].status = "completed" /\ raises[t][2] = 0

\* The calls that have returned their summary through the normal exit.
ReturnedNormally == {t \in Tasks : Returned(t) /\ summary[t].kind = "summary"}

\* C38: the lifetime counters hold the sum of total_actions and the sum of
\* failed_actions of the calls that have returned normally, however their
\* segments interleaved, and the ledger of each such summary is the list of
\* results its own call collected for its own plan.
NoLostCounterUpdates ==
    /\ stats.actions_executed =
          SumFn([t \in Tasks |-> summary[t].total_actions], ReturnedNormally)
    /\ stats.actions_failed =
          SumFn([t \in Tasks |-> summary[t].failed_actions], ReturnedNormally)
    /\ \A t \in ReturnedNormally :
          /\ Len(Ledger(t)) = Len(results[t])
          /\ Len(Ledger(t)) <= Len(plan[t])
          /\ \A k \in 1..Len(Ledger(t)) :
                /\ Ledger(t)[k] = result_to_dict(results[t][k])
                /\ Ledger(t)[k].retry_count <= raises[t][k]

\* C38 witness: every caller has returned normally with a ledger that is
\* not empty, one of them after a retry during which the other call ran and
\* one of them with a failed action.
AllCallsReturnedWithTotals ==
    /\ ReturnedNormally = Tasks
    /\ \A t \in Tasks : summary[t].total_actions > 0
    /\ \E t \in Tasks : summary[t].failed_actions > 0
    /\ \E t \in Tasks : \E k \in 1..Len(plan[t]) :
          raises[t][k] > 0 /\ Ledger(t)[k].status = "completed"

\* ------------------------------------------------------ the token manager
\* The coordinator's part of the state, the browser included.
coordinatorVars ==
    <<is_ready, active, semaphore, stats, max_retries, plan, pc, i, attempt,
      results, summary, calls, raises, lifecycle, status_dict, copy_stats,
      execution_id, sleeps, browser, uuid4, waiters, handled_unready,
      controller, initialize_result>>

\* now - 3600: the hour of the hourly limit, in seconds.
Hour == 3600

\* timedelta(days=1), in seconds.
Day == 24 * Hour

\* The instants at which the clock is read: every six hours, midnight among
\* them.
TickSeconds == 6 * Hour

\* How long the clock is followed, in ticks.
MaxTicks == 5

\* The largest prompt_tokens of a request.
MaxTokens == 3

\* The rejected requests followed.
MaxExceeded == 1

\* deque(maxlen=1000)
HistoryMaxLen == 1000

\* config['token_budget']: a small budget, the daily limit reset at the
\* default reset_time "00:00".
budget ==
    [daily_limit |-> 3, hourly_limit |-> 2, per_request_limit |-> 2,
     reset_time |-> [hour |-> 0, minute |-> 0]]

\* time.time() read a second time within one call (line 165): the same
\* reading or a later one, in seconds.
ClockDrift == {0, 1}

\* sum(u.total_tokens for u in self.usage_history if u.timestamp > since)
UsageSince(history, since) ==
    SumFn([n \in 1..Len(history) |-> history[n].total_tokens],
          {n \in 1..Len(history) : history[n].timestamp > since})

\* datetime(now_dt.year, now_dt.month, now_dt.day, reset_hour, reset_minute),
\* moved to the next day when now_dt lies after it.
NextReset(now) ==
    LET reset_dt == now - (now % Day) + budget.reset_time.hour * Hour
                        + budget.reset_time.minute * 60
    IN  IF now > reset_dt THEN reset_dt + Day ELSE reset_dt

\* _check_limits: the verdict and self.stats as the call leaves it.
check_limits(st, history, total_tokens, now) ==
    IF total_tokens > budget.per_request_limit
    THEN [allowed |-> FALSE, message |-> "per request", stats |-> st]
    ELSE IF UsageSince(history, now - Hour) + total_tokens > budget.hourly_limit
    THEN [allowed |-> FALSE, message |-> "hourly", stats |-> st]
    ELSE LET reset_time == NextReset(now)
             st2 == IF now > st.last_reset_time /\ now >= reset_time
                    THEN [st EXCEPT !.last_reset_time = now]
                    ELSE st
             daily_usage == UsageSince(history, st2.last_reset_time)
         IN  IF daily_usage + total_tokens > budget.daily_limit
             THEN [allowed |-> FALSE, message |-> "daily", stats |-> st2]
             ELSE [allowed |-> TRUE, message |-> "ok", stats |-> st2]

\* deque.append with maxlen: the oldest entry is dropped from a full deque.
DequeAppend(history, usage) ==
    IF Len(history) >= HistoryMaxLen THEN Append(Tail(history), usage)
    ELSE Append(history, usage)

\* add_usage(prompt_tokens, completion_tokens, model, operation): the usage
\* is recorded, or TokenLimitExceeded is raised.
add_usage(prompt_tokens, completion_tokens) ==
    LET total_tokens == prompt_tokens + completion_tokens
        verdict == check_limits(token_stats, usage_history, total_tokens, clock)
    IN  /\ token_stats.limit_exceeded_count < MaxExceeded
        /\ last_add_usage' = [kind |-> "add_usage", now |-> clock,
                              total_tokens |-> total_tokens,
                              history |-> usage_history,
                              allowed |-> verdict.allowed,
                              message |-> verdict.message]
        /\ IF ~verdict.allowed
           THEN /\ token_stats' = [verdict.stats EXCEPT
                                      !.limit_exceeded_count = @ + 1]
                /\ UNCHANGED usage_history
           ELSE \E drift \in ClockDrift :
                   /\ usage_history' =
                         DequeAppend(usage_history,
                                     [timestamp |-> clock + drift,
                                      total_tokens |-> total_tokens])
                   /\ token_stats' = [verdict.stats EXCEPT
                                         !.total_requests = @ + 1,
                                         !.total_tokens_used = @ + total_tokens]
        /\ UNCHANGED <<clock, coordinatorVars, adjusted>>

\* Time passes.
Tick ==
    /\ clock < MaxTicks * TickSeconds
    /\ clock' = clock + TickSeconds
    /\ UNCHANGED <<usage_history, token_stats, last_add_usage, coordinatorVars,
                   adjusted>>

\* The token manager built at some time of the first day, beside a
\* coordinator without plans.
TokenInit ==
    /\ CoordinatorConstructed([t \in Tasks |-> <<>>], MaxRetries,
                              CHOOSE u \in DistinctDraws : TRUE)
    /\ controller = BrowserStarted
    /\ adjusted = NoCall
    /\ \E start \in {n * TickSeconds : n \in 0..3} : TokenManagerAt(start)

TokenNext ==
    \/ Tick
    \/ \E prompt_tokens \in 1..MaxTokens, completion_tokens \in 0..1 :
           add_usage(prompt_tokens, completion_tokens)

\* The token manager over the days.
TokenSpec == TokenInit /\ [][TokenNext]_vars

\* ------------------------------------------------------ the agent's plans
\* The feedback errors followed per call.
MaxErrors == 2

\* error.get('step', -1): an index of the plan, the index past its end, or
\* -1 for an error that names no step.
ErrorSteps == -1..MaxPlanLen

\* feedback['errors']: no error, or a list of errors.
Feedbacks == UNION {[1..n -> [step : ErrorSteps]] : n \in 0..MaxErrors}

\* Action(type=ActionType.WAIT, target="body", value=1, ...): a new object.
check_action ==
    [object |-> 0,
     action |-> [type |-> EnumType("wait"), target |-> "body", value |-> 1]]

\* list.copy(): a new list holding the same objects, each known by its place
\* (from 1) in the list it was taken from.
ListCopy(actions) ==
    [k \in 1..Len(actions) |-> [object |-> k, action |-> actions[k]]]

\* Plan.insert_action(index, action): list.insert, for index >= 0.
insert_action(actions, index, action) ==
    LET at == IF index > Len(actions) THEN Len(actions) ELSE index
    IN  SubSeq(actions, 1, at) \o <<action>> \o SubSeq(actions, at + 1, Len(actions))

RECURSIVE AdjustLoop(_, _)
\* The loop over feedback['errors']: each error whose step lies within the
\* adjusted plan as it is by then gets a check action inserted after it.
AdjustLoop(actions, errors) ==
    IF errors = <<>> THEN actions
    ELSE LET error_step == Head(errors).step
         IN  AdjustLoop(IF 0 <= error_step /\ error_step < Len(actions)
                        THEN insert_action(actions, error_step + 1, check_action)
                        ELSE actions,
                        Tail(errors))

\* adjust_plan(current_plan, feedback): the list of current_plan is only
\* copied; the loop works on the copy, which is returned.
adjust_plan(current_plan, errors) ==
    /\ adjusted' = [kind |-> "adjust_plan",
                    given |-> current_plan,
                    errors |-> errors,
                    current_plan |-> current_plan,
                    returned |-> AdjustLoop(ListCopy(current_plan), errors)]
    /\ UNCHANGED <<coordinatorVars, tokenVars>>

\* The agent before its first adjust_plan call, beside a coordinator without
\* plans.
AdjustInit ==
    Constructed([t \in Tasks |-> <<>>], MaxRetries,
                CHOOSE u \in DistinctDraws : TRUE)

AdjustNext ==
    \E current_plan \in Plans, errors \in Feedbacks :
        adjust_plan(current_plan, errors)

\* Calls of adjust_plan with every plan and feedback.
AdjustSpec == AdjustInit /\ [][AdjustNext]_vars

\* ------------------------------------------------- claims C31 to C39
\* Caller t's call has passed the readiness check and has not returned.
InProgress(t) == pc[t] \notin {"idle", "raised", "done"}

\* C37: shutdown leaves every call in progress as it was (position, ledger,
\* gate, counters); a call that has passed the readiness check is never
\* ended by an exception afterwards, goes on from its pacing and backoff
\* sleeps to the handler of its next attempt or action while is_ready is
\* False, and, when it returns through the normal exit, adds its totals to
\* the lifetime counters. An error summary comes only from an action of
\* the call's own plan whose type has no value, never from shutdown.
ShutdownDoesNotInterrupt ==
    [][/\ (HasShutDown(lifecycle') /\ lifecycle' # lifecycle)
             => UNCHANGED <<pc, i, attempt, results, summary, calls, raises,
                            semaphore, waiters, stats>>
       /\ \A t \in Tasks :
             /\ InProgress(t) => pc'[t] # "raised"
             /\ (~is_ready /\ pc[t] = "backoff" /\ pc'[t] # "backoff")
                   => /\ pc'[t] \in {"handler", "acquire"}
                      /\ i'[t] = i[t] /\ attempt'[t] = attempt[t] + 1
                      /\ pc'[t] = "handler" => handled_unready'[t]
             /\ (~is_ready /\ pc[t] = "pacing" /\ pc'[t] # "pacing"
                   /\ Registered(plan[t][i[t] + 2]))
                   => /\ pc'[t] \in {"handler", "acquire"}
                      /\ i'[t] = i[t] + 1
                      /\ pc'[t] = "handler" => handled_unready'[t]
             /\ (InProgress(t) /\ pc'[t] = "done" /\ summary'[t].kind = "summary")
                   => /\ stats'.actions_executed
                            = stats.actions_executed + summary'[t].total_actions
                      /\ stats'.actions_failed
                            = stats.actions_failed + summary'[t].failed_actions
                      /\ summary'[t].total_actions = Len(results'[t])
             /\ (InProgress(t) /\ pc'[t] = "done" /\ summary'[t].kind = "error")
                   => TypeValue(plan[t][i'[t] + 1].type) = AttributeError]_vars

\* C37 witness: the coordinator is shut down, and a call that invoked a
\* handler after the shutdown has returned a normal summary over its whole
\* plan, counted in the lifetime counters.
CallFinishedAfterShutdown ==
    \E t \in Tasks :
        /\ ~is_ready /\ HasShutDown(lifecycle)
        /\ handled_unready[t]
        /\ Returned(t) /\ summary[t].kind = "summary"
        /\ Len(Ledger(t)) = Len(plan[t]) /\ Len(plan[t]) = 2
        /\ summary[t].success
        /\ stats.actions_executed >= summary[t].total_actions

\* C31: the coordinator is not ready before initialize has returned; a step
\* makes it ready only while the browser is initialized, active and has a
\* page; an initialize call met by a browser that is not available ends
\* with RuntimeError and leaves is_ready and active as they were; and while
\* is_ready is false every execute_plan call is rejected.
ReadyOnlyWhenBrowserAvailable ==
    /\ ~is_ready /\ ~active
    /\ [][/\ ((is_ready' /\ ~is_ready) \/ (active' /\ ~active)
                \/ (initialize_result' = "returned"
                       /\ initialize_result # "returned"))
                => /\ controller.is_initialized /\ controller.is_active
                   /\ controller.page # "None"
                   /\ initialize_result' = "returned"
          /\ (initialize_result' = "RuntimeError"
                /\ initialize_result # "RuntimeError")
                => /\ ~(controller.is_initialized /\ controller.is_active
                          /\ controller.page # "None")
                   /\ UNCHANGED <<is_ready, active>>
          /\ (initialize_result' # initialize_result
                /\ ~(controller.is_initialized /\ controller.is_active
                       /\ controller.page # "None"))
                => initialize_result' = "RuntimeError"
          /\ \A t \in Tasks :
                (~is_ready /\ pc[t] = "idle" /\ pc'[t] # "idle")
                   => pc'[t] = "raised" /\ stats' = stats]_vars

\* C31 witness: with the browser's page created but the browser not yet
\* initialized, initialize has failed on a coordinator that was never ready,
\* and a call made after that failure was rejected.
RejectedAfterFailedInitialize ==
    /\ initialize_result = "RuntimeError"
    /\ lifecycle = "constructed" /\ ~is_ready /\ ~active
    /\ controller.page # "None" /\ ~controller.is_initialized
    /\ \E t \in Tasks :
          pc[t] = "raised" /\ summary[t].initialize = "RuntimeError"

\* The callers whose handler body is running.
InFlight == {t \in Tasks : pc[t] = "handler"}

\* The waiting callers release() has already handed a slot to.
HandedSlot == {t \in Tasks : Woken(waiters, t)}

\* C34 (as claimed): the free slots and the handler invocations in flight
\* add up to the bound in every state, so that all slots are free whenever
\* no handler runs.
GateConservation ==
    /\ semaphore + Cardinality(InFlight) = MaxParallel
    /\ InFlight = {} => semaphore = MaxParallel

\* C34 (amended): the free slots, the handler invocations in flight and the
\* waiting callers already handed a slot add up to the bound in every state;
\* the step in which a handler returns or raises frees its slot or hands it
\* to the caller waiting longest; and all slots are free whenever no handler
\* runs and nobody waits at the gate.
GateConservationWithHandOff ==
    /\ [](/\ semaphore + Cardinality(InFlight) + Cardinality(HandedSlot)
                = MaxParallel
          /\ semaphore >= 0
          /\ (InFlight = {} /\ waiters = <<>>) => semaphore = MaxParallel
          /\ \A t \in HandedSlot : pc[t] = "acquire")
    /\ [][\A t \in Tasks :
             (pc[t] = "handler" /\ pc'[t] # "handler")
                => \/ semaphore' = semaphore + 1 /\ HandedSlot' = HandedSlot
                   \/ /\ semaphore' = semaphore
                      /\ waiters # <<>>
                      /\ HandedSlot' = HandedSlot \cup {waiters[1].task}
                      /\ waiters[1].task \notin HandedSlot]_vars

\* C34 witness: a handler has raised and its caller sleeps before the retry;
\* no handler runs and no slot is free, the one slot being handed to the
\* caller that waited.
SlotHandedOverWhileNoHandlerRuns ==
    /\ InFlight = {} /\ semaphore = 0
    /\ \E t, v \in Tasks :
          pc[t] = "backoff" /\ pc[v] = "acquire" /\ v \in HandedSlot

\* C35: every call that has passed the readiness check returns a summary in
\* the end, whatever the handlers do as long as each invocation returns or
\* raises, and however the calls interleave.
EveryCallReturns ==
    \A t \in Tasks :
        InProgress(t) ~> (Returned(t) /\ summary[t].kind \in {"summary", "error"})

\* C35 witness: both calls have returned, one through the except block and
\* one after one of its handler invocations raised.
BothCallsReturned ==
    /\ \A t \in Tasks : Returned(t)
    /\ \E t \in Tasks : summary[t].kind = "error"
    /\ \E t \in Tasks : \E k \in 1..Len(plan[t]) : raises[t][k] > 0

LastResetInstant(now) ==
    LET today == now - (now % Day) + budget.reset_time.hour * Hour
                     + budget.reset_time.minute * 60
    IN  IF now >= today THEN today ELSE today - Day

\* The usage recorded in history at or after instant since.
UsageFrom(history, since) ==
    SumFn([n \in 1..Len(history) |-> history[n].total_tokens],
          {n \in 1..Len(history) : history[n].timestamp >= since})

\* C33 (as claimed): usage recorded before the last passing of reset_time
\* does not count against daily_limit: a request within the per-request
\* limit, within the hourly limit, and within daily_limit together with the
\* usage recorded since reset_time last passed, is accepted.
DailyLimitResetsAtResetTime ==
    last_add_usage.kind = "add_usage" =>
        LET c == last_add_usage
        IN  ( /\ c.total_tokens <= budget.per_request_limit
              /\ UsageSince(c.history, c.now - Hour) + c.total_tokens
                    <= budget.hourly_limit
              /\ UsageFrom(c.history, LastResetInstant(c.now)) + c.total_tokens
                    <= budget.daily_limit )
            => c.allowed

\* C39 (as claimed): adjust_plan leaves the action list of the plan it was
\* given as it was, and in the plan it returns, for every error of the
\* feedback whose step is an index of the given plan, the action the given
\* plan has at that index is directly followed by a check action, with one
\* error step or with several.
AdjustPlanChecksEveryErrorStep ==
    adjusted.kind = "adjust_plan" =>
        /\ adjusted.current_plan = adjusted.given
        /\ \A n \in 1..Len(adjusted.errors) :
              LET step == adjusted.errors[n].step
              IN  (0 <= step /\ step < Len(adjusted.given))
                     => \E j \in 1..(Len(adjusted.returned) - 1) :
                           /\ adjusted.returned[j].object = step + 1
                           /\ adjusted.returned[j + 1] = check_action

====
